---- MODULE Spec2Model ----
(***************************************************************************)
(* Model of milvus::segcore::SegmentInternalInterface                      *)
(* (internal/core/src/segcore/SegmentInterface.cpp): the segment query     *)
(* interface (Search, Retrieve, FillPrimaryKeys, FillTargetEntry,          *)
(* get_real_count), the field-size estimator, the visibility filter, the   *)
(* metric-type check, the SkipIndex loaders and the segment's              *)
(* shared/exclusive lock.                                                  *)
(*                                                                         *)
(* Sequential operations are modelled as whole calls that record what      *)
(* they were given and what they returned in the variable last; the lock   *)
(* protocol is modelled step by step, one thread position per lock         *)
(* operation.                                                              *)
(***************************************************************************)
EXTENDS Integers, Sequences, FiniteSets, TLC

VARIABLES
    schema,                      \* get_schema(): field id -> field meta, fixed at construction
    variable_fields_avg_size_,   \* field id -> NoEntry or [first |-> rows, second |-> avg]
    observed,                    \* history: per field the batches set_field_avg_size accepted
    setCalls,                    \* history: number of set_field_avg_size calls made
    last,                        \* the last sequential call: its inputs and its outcome
    results,                     \* the caller's SearchResult
    filledLen,                   \* history: size of results when FillPrimaryKeys last filled it
                                 \* and primary_keys_ was not reset since, else -1
    timestamps,                  \* get_timestamps(): one insertion timestamp per row
    bitset,                      \* the caller's BitsetType, bit i at index i + 1
    mutex_,                      \* the segment's std::shared_mutex
    pc,                          \* per thread: position in the operation it runs
    op,                          \* per thread: the operation it runs
    local,                       \* per thread: the locals of the call it runs
    calls,                       \* number of calls started
    skipIndex_,                  \* the SkipIndex: the (field, chunk) pairs loaded into it
    index_meta,                  \* the collection's index meta: vector field id -> metric type
    search_info_                 \* plan->plan_node_->search_info_ of the caller's search plan

vars == <<schema, variable_fields_avg_size_, observed, setCalls, last, results,
          filledLen, timestamps, bitset, mutex_, pc, op, local, calls,
          skipIndex_, index_meta, search_info_>>

----------------------------------------------------------------------------
(* Bounds *)

MaxPlanFields == 2      \* longest plan->field_ids_
NumRows == 2            \* rows of the segment a Retrieve can match
MaxAvg == 2             \* largest stored average in an initial estimator table
MaxLimit == 9           \* largest limit_size passed to Retrieve
MaxSetCalls == 3        \* set_field_avg_size calls in one run
MaxBatchRows == 2       \* largest num_rows of a batch
MaxBatchSize == 3       \* largest field_size of a batch
MaxTopK == 2            \* longest seg_offsets_ / distances_ a Search returns
MaxTargets == 1         \* longest plan->target_entries_
MaxTsRows == 3          \* rows of the timestamp array seen by the visibility filter
MaxCalls == 3           \* calls started by the threads in one run

----------------------------------------------------------------------------
(* Generic helpers *)

NoEntry == [present |-> FALSE, first |-> 0, second |-> 0]   \* no entry in variable_fields_avg_size_
NoField == -1          \* an empty std::optional<FieldId>
NoThread == "none"
Idle == [op |-> "none"]

SeqsUpTo(S, n) == UNION {[1..k -> S] : k \in 0..n}

RECURSIVE SortedSeq(_)
SortedSeq(S) ==
    IF S = {} THEN <<>>
    ELSE LET m == CHOOSE x \in S : \A y \in S : x <= y
         IN <<m>> \o SortedSeq(S \ {m})

----------------------------------------------------------------------------
(* Schema and system fields *)

RowFieldID == 0
TimestampFieldID == 1
OtherSystemFieldID == 2
SizeofInt64 == 8

SystemFields == {RowFieldID, TimestampFieldID, OtherSystemFieldID}
PkFieldID == 100
VarFieldID == 101
Int8FieldID == 102
UserFields == {PkFieldID, VarFieldID, Int8FieldID}
FieldIds == SystemFields \cup UserFields

IsSystem(field_id) == field_id \in SystemFields

\* The vector fields of the collection, each with an index.
VecFieldID == 103
Vec2FieldID == 104
VectorFields == {VecFieldID, Vec2FieldID}
MetricTypes == {"L2", "IP", "COSINE"}
DefaultIndexMeta == [f \in VectorFields |-> "L2"]
DefaultSearchInfo == [metric_type_ |-> "", field_id_ |-> VecFieldID]

datatype_is_variable(data_type) == data_type \in {"VARCHAR", "STRING", "ARRAY", "JSON"}

IsPrimaryKeyDataType(data_type) == data_type \in {"INT64", "VARCHAR"}

get_sizeof(data_type) ==
    CASE data_type = "INT8" -> 1
      [] data_type = "FLOAT" -> 4
      [] data_type = "INT64" -> 8
      [] OTHER -> 0

\* The schemas a segment is built with: the field PkFieldID is INT64, VARCHAR or
\* FLOAT and is or is not designated the primary key.
SchemaOf(pk_type, has_pk) ==
    [fields |-> [f \in UserFields |->
                    CASE f = PkFieldID -> [data_type |-> pk_type]
                      [] f = VarFieldID -> [data_type |-> "VARCHAR"]
                      [] OTHER -> [data_type |-> "INT8"]],
     primary_field_id |-> IF has_pk THEN PkFieldID ELSE NoField]

Schemas == {SchemaOf("INT64", TRUE), SchemaOf("VARCHAR", TRUE),
            SchemaOf("FLOAT", TRUE), SchemaOf("INT64", FALSE)}

VariableFields(sch) == {f \in UserFields : datatype_is_variable(sch.fields[f].data_type)}

----------------------------------------------------------------------------
(* Field-size estimator *)

Ret(v) == [status |-> "ok", val |-> v]
Throw(e) == [status |-> e, val |-> 0]

get_field_avg_size(table, sch, field_id) ==
    IF field_id < 0 THEN Throw("AssertError")
    ELSE IF IsSystem(field_id) THEN
        IF field_id = TimestampFieldID \/ field_id = RowFieldID
        THEN Ret(SizeofInt64)
        ELSE Throw("FieldIDInvalid")
    ELSE LET data_type == sch.fields[field_id].data_type IN
        IF datatype_is_variable(data_type) THEN
            IF table[field_id] = NoEntry THEN Ret(0)
            ELSE Ret(table[field_id].second)
        ELSE Ret(get_sizeof(data_type))

\* set_field_avg_size without the test of line 243.
set_field_avg_size_update_any_type(table, sch, field_id, num_rows, field_size) ==
    IF field_id < 0 THEN [status |-> "AssertError", table |-> table]
    ELSE IF ~(num_rows > 0) THEN [status |-> "AssertError", table |-> table]
    ELSE LET field_info == IF table[field_id] = NoEntry
                           THEN [first |-> 0, second |-> 0]
                           ELSE table[field_id]
             size == field_info.first * field_info.second + field_size
             first == field_info.first + num_rows
         IN [status |-> "ok",
             table |-> [table EXCEPT ![field_id] =
                           [present |-> TRUE, first |-> first,
                            second |-> size \div first]]]

\* The estimator table after set_field_avg_size(field_id, num_rows, field_size),
\* and whether the call threw.
set_field_avg_size_update(table, sch, field_id, num_rows, field_size) ==
    IF field_id < 0 THEN [status |-> "AssertError", table |-> table]
    ELSE LET data_type == sch.fields[field_id].data_type IN
        IF datatype_is_variable(data_type) THEN
            IF ~(num_rows > 0) THEN [status |-> "AssertError", table |-> table]
            ELSE LET field_info == IF table[field_id] = NoEntry
                                   THEN [first |-> 0, second |-> 0]
                                   ELSE table[field_id]
                     size == field_info.first * field_info.second + field_size
                     first == field_info.first + num_rows
                 IN [status |-> "ok",
                     table |-> [table EXCEPT ![field_id] =
                                   [present |-> TRUE, first |-> first,
                                    second |-> size \div first]]]
        ELSE [status |-> "ok", table |-> table]

----------------------------------------------------------------------------
(* Retrieve *)

\* Bulk Column Accessor: the column of field_id at the given offsets, in the
\* order of the offsets.  A cell is named by its field and its row.
bulk_subscript(field_id, offsets) ==
    [field_id |-> field_id, data |-> [i \in 1..Len(offsets) |-> <<field_id, offsets[i]>>]]

\* The count column the plan visitor builds: one int64 scalar column holding
\* one row, the count.
wrap_num_entities(cnt) == [scalars |-> [long_data |-> <<cnt>>]]

\* What the plan visitor hands back to Retrieve: for a count plan one count
\* column and no offsets, otherwise the matched offsets in ascending order.
VisitorRetrieveResults(is_count) ==
    IF is_count
    THEN {[result_offsets_ |-> <<>>, field_data_ |-> <<wrap_num_entities(c)>>] : c \in 0..NumRows}
    ELSE {[result_offsets_ |-> SortedSeq(S), field_data_ |-> <<>>] : S \in SUBSET (0..(NumRows - 1))}

RetrievePlans ==
    [field_ids_ : SeqsUpTo(FieldIds, MaxPlanFields), is_count_ : BOOLEAN]

\* Lines 93-96 with the row count left out of the product.
RECURSIVE output_data_size_per_row(_, _, _, _, _, _)
output_data_size_per_row(table, sch, field_ids, i, result_rows, acc) ==
    IF i > Len(field_ids) THEN Ret(acc)
    ELSE LET avg == get_field_avg_size(table, sch, field_ids[i]) IN
         IF avg.status # "ok" THEN avg
         ELSE output_data_size_per_row(table, sch, field_ids, i + 1, result_rows,
                                       acc + avg.val)

\* Lines 93-96: the budget sum, or the error of the first get_field_avg_size
\* that throws.
RECURSIVE output_data_size(_, _, _, _, _, _)
output_data_size(table, sch, field_ids, i, result_rows, acc) ==
    IF i > Len(field_ids) THEN Ret(acc)
    ELSE LET avg == get_field_avg_size(table, sch, field_ids[i]) IN
         IF avg.status # "ok" THEN avg
         ELSE output_data_size(table, sch, field_ids, i + 1, result_rows,
                               acc + avg.val * result_rows)

EmptyRetrieveResults ==
    [returned |-> TRUE, offset |-> <<>>, fields_data |-> <<>>,
     ids |-> [kind |-> "none", data |-> <<>>]]
\* A call that throws returns nothing.
NoResults == [EmptyRetrieveResults EXCEPT !.returned = FALSE]

\* The loop of lines 116-175 without lines 151-174.
RECURSIVE fill_fields_without_ids(_, _, _, _, _, _)
fill_fields_without_ids(sch, field_ids, i, offsets, res, fetches) ==
    IF i > Len(field_ids) THEN [status |-> "ok", results |-> res, fetches |-> fetches]
    ELSE LET col == bulk_subscript(field_ids[i], offsets)
         IN fill_fields_without_ids(sch, field_ids, i + 1, offsets,
                [res EXCEPT !.fields_data = Append(@, col)], fetches + 1)

\* Lines 116-175: the loop over plan->field_ids_ from position i on, given the
\* result built so far and the number of bulk fetches made so far.
RECURSIVE fill_fields(_, _, _, _, _, _)
fill_fields(sch, field_ids, i, offsets, res, fetches) ==
    IF i > Len(field_ids) THEN [status |-> "ok", results |-> res, fetches |-> fetches]
    ELSE LET field_id == field_ids[i]
             col == bulk_subscript(field_id, offsets)
             added == [res EXCEPT !.fields_data = Append(@, col)]
         IN IF IsSystem(field_id)
            THEN fill_fields(sch, field_ids, i + 1, offsets, added, fetches + 1)
            ELSE IF sch.primary_field_id # NoField /\ sch.primary_field_id = field_id
            THEN LET data_type == sch.fields[field_id].data_type IN
                 IF data_type = "INT64"
                 THEN fill_fields(sch, field_ids, i + 1, offsets,
                          [added EXCEPT !.ids = [kind |-> "int_id", data |-> added.ids.data \o col.data]],
                          fetches + 1)
                 ELSE IF data_type = "VARCHAR"
                 THEN fill_fields(sch, field_ids, i + 1, offsets,
                          [added EXCEPT !.ids = [kind |-> "str_id", data |-> added.ids.data \o col.data]],
                          fetches + 1)
                 ELSE [status |-> "DataTypeInvalid", results |-> NoResults, fetches |-> fetches + 1]
            ELSE fill_fields(sch, field_ids, i + 1, offsets, added, fetches + 1)

\* Line 97, with >= for >.
exceeds_limit_inclusive(size, limit_size) == size >= limit_size

\* Line 97: the budget test.
exceeds_limit(size, limit_size) == size > limit_size

\* Retrieve with the budget test made after the columns are fetched.
RetrieveCall_check_after_fill(table, sch, plan, retrieve_results, limit_size) ==
    LET result_rows == Len(retrieve_results.result_offsets_)
        budget == output_data_size(table, sch, plan.field_ids_, 1, result_rows, 0)
        filled == fill_fields(sch, plan.field_ids_, 1, retrieve_results.result_offsets_,
                      [EmptyRetrieveResults EXCEPT !.offset = retrieve_results.result_offsets_],
                      0)
    IN  IF budget.status # "ok"
        THEN [status |-> budget.status, results |-> NoResults, fetches |-> 0]
        ELSE IF plan.is_count_
        THEN IF exceeds_limit(budget.val, limit_size)
             THEN [status |-> "RetrieveError", results |-> NoResults, fetches |-> 0]
             ELSE IF Len(retrieve_results.field_data_) # 1
             THEN [status |-> "AssertError", results |-> NoResults, fetches |-> 0]
             ELSE [status |-> "ok",
                   results |-> [EmptyRetrieveResults EXCEPT
                                   !.fields_data = <<retrieve_results.field_data_[1]>>],
                   fetches |-> 0]
        ELSE IF filled.status = "ok" /\ exceeds_limit(budget.val, limit_size)
        THEN [status |-> "RetrieveError", results |-> NoResults, fetches |-> filled.fetches]
        ELSE filled

\* Retrieve without the count branch of lines 103-108.
RetrieveCall_no_count_path(table, sch, plan, retrieve_results, limit_size) ==
    LET result_rows == Len(retrieve_results.result_offsets_)
        budget == output_data_size(table, sch, plan.field_ids_, 1, result_rows, 0)
    IN  IF budget.status # "ok"
        THEN [status |-> budget.status, results |-> NoResults, fetches |-> 0]
        ELSE IF exceeds_limit(budget.val, limit_size)
        THEN [status |-> "RetrieveError", results |-> NoResults, fetches |-> 0]
        ELSE fill_fields(sch, plan.field_ids_, 1, retrieve_results.result_offsets_,
                         [EmptyRetrieveResults EXCEPT !.offset = retrieve_results.result_offsets_],
                         0)

\* SegmentInternalInterface::Retrieve as one call: what the caller gets.
RetrieveCall(table, sch, plan, retrieve_results, limit_size) ==
    LET result_rows == Len(retrieve_results.result_offsets_)
        budget == output_data_size(table, sch, plan.field_ids_, 1, result_rows, 0)
    IN  IF budget.status # "ok"
        THEN [status |-> budget.status, results |-> NoResults, fetches |-> 0]
        ELSE IF exceeds_limit(budget.val, limit_size)
        THEN [status |-> "RetrieveError", results |-> NoResults, fetches |-> 0]
        ELSE IF plan.is_count_
        THEN IF Len(retrieve_results.field_data_) # 1
             THEN [status |-> "AssertError", results |-> NoResults, fetches |-> 0]
             ELSE [status |-> "ok",
                   results |-> [EmptyRetrieveResults EXCEPT
                                   !.fields_data = <<retrieve_results.field_data_[1]>>],
                   fetches |-> 0]
        ELSE fill_fields(sch, plan.field_ids_, 1, retrieve_results.result_offsets_,
                         [EmptyRetrieveResults EXCEPT !.offset = retrieve_results.result_offsets_],
                         0)

----------------------------------------------------------------------------
(* State shared by the specifications *)

EmptySearchResult ==
    [seg_offsets_ |-> <<>>, distances_ |-> <<>>, primary_keys_ |-> <<>>,
     pk_type_ |-> "NONE", output_fields_data_ |-> <<>>]

Threads == {"t1", "t2", "t3"}

\* std::shared_mutex: the shared holds of each thread, the exclusive owner, the
\* threads blocked in lock(), and whether this build's lock_shared() waits
\* behind a blocked lock() (writer preference) or not.
FreeMutex == [readers |-> [t \in Threads |-> 0], writer |-> NoThread,
              waiting |-> {}, writer_first |-> FALSE]

NoLocals == [field_ids |-> <<>>, i |-> 0, result_rows |-> 0, limit_size |-> 0,
             output_data_size |-> 0, num_rows |-> 0, field_size |-> 0, status |-> "none"]

EmptyTable == [f \in UserFields |-> NoEntry]
NothingObserved == [f \in UserFields |-> [rows |-> 0, size |-> 0]]

\* Estimator tables one load batch per variable-length field produces.
LoadedEntries == {NoEntry} \cup {[present |-> TRUE, first |-> 1, second |-> a] : a \in 0..MaxAvg}
LoadedTables(sch) ==
    {t \in [UserFields -> LoadedEntries] :
        \A f \in UserFields : f \notin VariableFields(sch) => t[f] = NoEntry}
ObservedOf(table) ==
    [f \in UserFields |-> IF table[f] = NoEntry THEN [rows |-> 0, size |-> 0]
                          ELSE [rows |-> table[f].first,
                                size |-> table[f].first * table[f].second]]

SegmentUnchanged == UNCHANGED <<schema, timestamps>>
IndexUnchanged == UNCHANGED <<skipIndex_, index_meta, search_info_>>
LockUnchanged == UNCHANGED <<mutex_, pc, op, local, calls>>
EstimatorUnchanged == UNCHANGED <<variable_fields_avg_size_, observed, setCalls>>

InitRest ==
    /\ last = Idle
    /\ results = EmptySearchResult
    /\ filledLen = -1
    /\ timestamps = <<>>
    /\ bitset = <<>>
    /\ mutex_ = FreeMutex
    /\ pc = [t \in Threads |-> "idle"]
    /\ op = [t \in Threads |-> "none"]
    /\ local = [t \in Threads |-> NoLocals]
    /\ calls = 0
    /\ skipIndex_ = {}
    /\ index_meta = DefaultIndexMeta
    /\ search_info_ = DefaultSearchInfo

\* The caller takes the outcome of its call and is ready for the next one.
Return ==
    /\ last # Idle
    /\ last' = Idle
    /\ UNCHANGED <<results, filledLen, bitset>>
    /\ SegmentUnchanged /\ IndexUnchanged /\ LockUnchanged /\ EstimatorUnchanged

----------------------------------------------------------------------------
(* SpecEstimator: the load path calls set_field_avg_size, readers call     *)
(* get_field_avg_size.                                                     *)

InitEstimator ==
    /\ schema \in Schemas
    /\ variable_fields_avg_size_ = EmptyTable
    /\ observed = NothingObserved
    /\ setCalls = 0
    /\ InitRest

SetFieldAvgSize ==
    /\ last = Idle
    /\ \E field_id \in UserFields, num_rows \in 0..MaxBatchRows, field_size \in 0..MaxBatchSize :
        LET r == set_field_avg_size_update(variable_fields_avg_size_, schema,
                                           field_id, num_rows, field_size)
            counted == r.status = "ok" /\ field_id \in VariableFields(schema)
        IN  /\ setCalls < MaxSetCalls
            /\ setCalls' = setCalls + 1
            /\ variable_fields_avg_size_' = r.table
            /\ observed' = IF counted
                           THEN [observed EXCEPT ![field_id] =
                                    [rows |-> @.rows + num_rows, size |-> @.size + field_size]]
                           ELSE observed
            /\ last' = [op |-> "set_field_avg_size", field_id |-> field_id,
                        num_rows |-> num_rows, field_size |-> field_size,
                        before |-> variable_fields_avg_size_, status |-> r.status]
            /\ UNCHANGED <<results, filledLen, bitset>>
            /\ SegmentUnchanged /\ IndexUnchanged /\ LockUnchanged

GetFieldAvgSize ==
    /\ last = Idle
    /\ \E field_id \in FieldIds :
        LET r == get_field_avg_size(variable_fields_avg_size_, schema, field_id)
        IN  /\ last' = [op |-> "get_field_avg_size", field_id |-> field_id,
                        status |-> r.status, val |-> r.val]
            /\ UNCHANGED <<results, filledLen, bitset>>
            /\ SegmentUnchanged /\ IndexUnchanged /\ LockUnchanged /\ EstimatorUnchanged

NextEstimator == SetFieldAvgSize \/ GetFieldAvgSize \/ Return

SpecEstimator == InitEstimator /\ [][NextEstimator]_vars

----------------------------------------------------------------------------
(* SpecRetrieve: Retrieve calls on a loaded segment.                       *)

InitRetrieve ==
    /\ schema \in Schemas
    /\ variable_fields_avg_size_ \in LoadedTables(schema)
    /\ observed = ObservedOf(variable_fields_avg_size_)
    /\ setCalls = 0
    /\ InitRest

Retrieve ==
    /\ last = Idle
    /\ \E plan \in RetrievePlans, limit_size \in 0..MaxLimit :
      \E retrieve_results \in VisitorRetrieveResults(plan.is_count_) :
        LET r == RetrieveCall(variable_fields_avg_size_, schema, plan,
                              retrieve_results, limit_size)
        IN  /\ last' = [op |-> "Retrieve", plan |-> plan, limit_size |-> limit_size,
                        result_offsets_ |-> retrieve_results.result_offsets_,
                        field_data_ |-> retrieve_results.field_data_,
                        status |-> r.status, results |-> r.results, fetches |-> r.fetches]
            /\ UNCHANGED <<results, filledLen, bitset>>
            /\ SegmentUnchanged /\ IndexUnchanged /\ LockUnchanged /\ EstimatorUnchanged

NextRetrieve == Retrieve \/ Return

SpecRetrieve == InitRetrieve /\ [][NextRetrieve]_vars

----------------------------------------------------------------------------
(* Search and result materialization                                       *)

\* A value-initialized PkType, as primary_keys_.resize(size) creates it.
DefaultPk == <<NoField, -1>>

\* check_search(plan): the plan must be non-null.
check_search(plan_given) == plan_given

\* What the plan visitor hands back to Search: offsets and distances of the
\* same length.
VisitorSearchResults ==
    UNION {{[EmptySearchResult EXCEPT !.seg_offsets_ = offs,
                                      !.distances_ = [i \in 1..k |-> i]] :
               offs \in [1..k -> 0..(NumRows - 1)]} : k \in 0..MaxTopK}

\* FillPrimaryKeys without the length check of lines 31-32.
FillPrimaryKeysCall_no_length_check(sch, plan_given, res) ==
    LET size == Len(res.distances_)
        resized == [res EXCEPT !.primary_keys_ = [i \in 1..size |-> DefaultPk]]
        pk_field_id == sch.primary_field_id
    IN  IF ~plan_given THEN [status |-> "AssertError", results |-> res]
        ELSE IF Len(res.primary_keys_) # 0 THEN [status |-> "AssertError", results |-> res]
        ELSE IF pk_field_id = NoField THEN [status |-> "AssertError", results |-> resized]
        ELSE IF ~IsPrimaryKeyDataType(sch.fields[pk_field_id].data_type)
        THEN [status |-> "AssertError", results |-> resized]
        ELSE LET field_data == bulk_subscript(pk_field_id, res.seg_offsets_)
             IN [status |-> "ok",
                 results |-> [resized EXCEPT
                                 !.pk_type_ = sch.fields[pk_field_id].data_type,
                                 !.primary_keys_ = field_data.data]]

\* FillPrimaryKeys without line 33.
FillPrimaryKeysCall_no_empty_check(sch, plan_given, res) ==
    LET size == Len(res.distances_)
        resized == [res EXCEPT !.primary_keys_ = [i \in 1..size |-> DefaultPk]]
        pk_field_id == sch.primary_field_id
    IN  IF ~plan_given THEN [status |-> "AssertError", results |-> res]
        ELSE IF Len(res.seg_offsets_) # size THEN [status |-> "AssertError", results |-> res]
        ELSE IF pk_field_id = NoField THEN [status |-> "AssertError", results |-> resized]
        ELSE IF ~IsPrimaryKeyDataType(sch.fields[pk_field_id].data_type)
        THEN [status |-> "AssertError", results |-> resized]
        ELSE LET field_data == bulk_subscript(pk_field_id, res.seg_offsets_)
             IN [status |-> "ok",
                 results |-> [resized EXCEPT
                                 !.pk_type_ = sch.fields[pk_field_id].data_type,
                                 !.primary_keys_ = field_data.data]]

\* SegmentInternalInterface::FillPrimaryKeys as one call: whether it threw and
\* the SearchResult it leaves behind.
FillPrimaryKeysCall(sch, plan_given, res) ==
    LET size == Len(res.distances_)
        resized == [res EXCEPT !.primary_keys_ = [i \in 1..size |-> DefaultPk]]
        pk_field_id == sch.primary_field_id
    IN  IF ~plan_given THEN [status |-> "AssertError", results |-> res]
        ELSE IF Len(res.seg_offsets_) # size THEN [status |-> "AssertError", results |-> res]
        ELSE IF Len(res.primary_keys_) # 0 THEN [status |-> "AssertError", results |-> res]
        ELSE IF pk_field_id = NoField THEN [status |-> "AssertError", results |-> resized]
        ELSE IF ~IsPrimaryKeyDataType(sch.fields[pk_field_id].data_type)
        THEN [status |-> "AssertError", results |-> resized]
        ELSE LET field_data == bulk_subscript(pk_field_id, res.seg_offsets_)
             IN [status |-> "ok",
                 results |-> [resized EXCEPT
                                 !.pk_type_ = sch.fields[pk_field_id].data_type,
                                 !.primary_keys_ = field_data.data]]

\* Lines 60-64: the loop over plan->target_entries_ from position i on.
RECURSIVE fill_target_entries(_, _, _)
fill_target_entries(target_entries, i, res) ==
    IF i > Len(target_entries) THEN res
    ELSE LET field_id == target_entries[i]
             field_data == bulk_subscript(field_id, res.seg_offsets_)
             old == res.output_fields_data_
         IN fill_target_entries(target_entries, i + 1,
                [res EXCEPT !.output_fields_data_ =
                    [f \in (DOMAIN old) \cup {field_id} |->
                        IF f = field_id THEN field_data ELSE old[f]]])

\* SegmentInternalInterface::FillTargetEntry as one call.
FillTargetEntryCall(plan_given, target_entries, res) ==
    IF ~plan_given THEN [status |-> "AssertError", results |-> res]
    ELSE IF Len(res.seg_offsets_) # Len(res.distances_)
    THEN [status |-> "AssertError", results |-> res]
    ELSE [status |-> "ok", results |-> fill_target_entries(target_entries, 1, res)]

----------------------------------------------------------------------------
(* SpecFill: a caller searches, edits its SearchResult and fills it.       *)

InitFill ==
    /\ schema \in Schemas
    /\ variable_fields_avg_size_ = EmptyTable
    /\ observed = NothingObserved
    /\ setCalls = 0
    /\ InitRest

Search ==
    /\ last = Idle
    /\ \E plan_given \in BOOLEAN, found \in VisitorSearchResults :
        /\ IF check_search(plan_given)
           THEN /\ results' = found
                /\ filledLen' = -1
                /\ last' = [op |-> "Search", plan_given |-> plan_given, status |-> "ok"]
           ELSE /\ UNCHANGED <<results, filledLen>>
                /\ last' = [op |-> "Search", plan_given |-> plan_given,
                            status |-> "AssertError"]
        /\ UNCHANGED bitset
        /\ SegmentUnchanged /\ IndexUnchanged /\ LockUnchanged /\ EstimatorUnchanged

FillPrimaryKeys ==
    /\ last = Idle
    /\ \E plan_given \in BOOLEAN :
        LET r == FillPrimaryKeysCall(schema, plan_given, results)
        IN  /\ results' = r.results
            /\ filledLen' = IF r.status = "ok" THEN Len(results.distances_) ELSE filledLen
            /\ last' = [op |-> "FillPrimaryKeys", plan_given |-> plan_given,
                        before |-> results, filled_before |-> filledLen, status |-> r.status]
            /\ UNCHANGED bitset
            /\ SegmentUnchanged /\ IndexUnchanged /\ LockUnchanged /\ EstimatorUnchanged

FillTargetEntry ==
    /\ last = Idle
    /\ \E plan_given \in BOOLEAN, target_entries \in SeqsUpTo(UserFields, MaxTargets) :
        LET r == FillTargetEntryCall(plan_given, target_entries, results)
        IN  /\ results' = r.results
            /\ last' = [op |-> "FillTargetEntry", plan_given |-> plan_given,
                        before |-> results, filled_before |-> filledLen, status |-> r.status]
            /\ UNCHANGED <<filledLen, bitset>>
            /\ SegmentUnchanged /\ IndexUnchanged /\ LockUnchanged /\ EstimatorUnchanged

\* The caller clears primary_keys_ of its result.
ResetPrimaryKeys ==
    /\ last = Idle
    /\ results.primary_keys_ # <<>>
    /\ results' = [results EXCEPT !.primary_keys_ = <<>>]
    /\ filledLen' = -1
    /\ UNCHANGED <<last, bitset>>
    /\ SegmentUnchanged /\ IndexUnchanged /\ LockUnchanged /\ EstimatorUnchanged

\* The caller drops the last entry of seg_offsets_ or of distances_ (its
\* reduce step rewrites both vectors).
CallerTrims ==
    /\ last = Idle
    /\ \/ /\ results.seg_offsets_ # <<>>
          /\ results' = [results EXCEPT !.seg_offsets_ = SubSeq(@, 1, Len(@) - 1)]
       \/ /\ results.distances_ # <<>>
          /\ results' = [results EXCEPT !.distances_ = SubSeq(@, 1, Len(@) - 1)]
    /\ UNCHANGED <<last, filledLen, bitset>>
    /\ SegmentUnchanged /\ IndexUnchanged /\ LockUnchanged /\ EstimatorUnchanged

NextFill ==
    \/ Search
    \/ FillPrimaryKeys
    \/ FillTargetEntry
    \/ ResetPrimaryKeys
    \/ CallerTrims
    \/ Return

SpecFill == InitFill /\ [][NextFill]_vars

----------------------------------------------------------------------------
(* Visibility filter                                                       *)

TsValues == {10, 20, 30}
Snapshots == {5, 10, 20, 25, 30}

\* Timestamp arrays the loader builds: non-decreasing in offset order.
TimestampArrays ==
    {T \in SeqsUpTo(TsValues, MaxTsRows) :
        \A i \in 1..Len(T) : \A j \in i..Len(T) : T[i] <= T[j]}

\* BitsetType::npos once stored in the int loop variable.
npos == -1

\* boost::dynamic_bitset::find_next: the lowest set bit above pos, or npos.
find_next(b, pos) ==
    LET above == {i \in 0..(Len(b) - 1) : i > pos /\ b[i + 1]}
    IN  IF above = {} THEN npos ELSE CHOOSE i \in above : \A j \in above : i <= j

\* upper_bound(timestamps, first, last, value): binary search for the first
\* offset in [first, last) whose timestamp exceeds value.
RECURSIVE upper_bound(_, _, _, _)
upper_bound(T, first, lst, value) ==
    IF ~(first < lst) THEN first
    ELSE LET mid == first + (lst - first) \div 2
         IN IF value >= T[mid + 1]
            THEN upper_bound(T, mid + 1, lst, value)
            ELSE upper_bound(T, first, mid, value)

\* Lines 270-275: the walk over the set bits from offset on.  The comparison
\* offset < cnt is unsigned, so a negative offset ends the loop.
RECURSIVE dense_loop(_, _, _)
dense_loop(b, offset, cnt) ==
    IF ~(offset >= 0 /\ offset < cnt) THEN b
    ELSE IF offset = npos THEN b
    ELSE LET cleared == [b EXCEPT ![offset + 1] = FALSE]
         IN dense_loop(cleared, find_next(cleared, offset), cnt)

\* The dense form with the walk started at the first set bit after pilot.
timestamp_filter_dense_skips_pilot(T, b, timestamp) ==
    LET cnt == Len(b)
    IN  IF T[cnt] <= timestamp THEN b
        ELSE dense_loop(b, find_next(b, upper_bound(T, 0, cnt, timestamp)), cnt)

\* timestamp_filter(BitsetType&, Timestamp), for a bitset of at least one bit.
timestamp_filter_dense(T, b, timestamp) ==
    LET cnt == Len(b)
    IN  IF T[cnt] <= timestamp THEN b
        ELSE dense_loop(b, upper_bound(T, 0, cnt, timestamp), cnt)

\* Lines 290-294: the loop over the offsets from position i on; mark is the
\* value bitset.set(offset, mark) writes and hit the test on the timestamp.
RECURSIVE sparse_loop(_, _, _, _, _, _)
sparse_loop(T, b, offsets, i, timestamp, strict) ==
    IF i > Len(offsets) THEN b
    ELSE LET offset == offsets[i]
             hit == IF strict THEN T[offset + 1] > timestamp
                    ELSE T[offset + 1] >= timestamp
         IN sparse_loop(T, IF hit THEN [b EXCEPT ![offset + 1] = TRUE] ELSE b,
                        offsets, i + 1, timestamp, strict)

\* The sparse form with >= for > in the test of line 291.
timestamp_filter_sparse_inclusive(T, b, offsets, timestamp) ==
    LET cnt == Len(b)
    IN  IF T[cnt] <= timestamp THEN b
        ELSE sparse_loop(T, b, offsets, 1, timestamp, FALSE)

\* The sparse form reading the snapshot as exclusive: < in the fast exit and
\* >= in the test of line 291.
timestamp_filter_sparse_exclusive(T, b, offsets, timestamp) ==
    LET cnt == Len(b)
    IN  IF T[cnt] < timestamp THEN b
        ELSE sparse_loop(T, b, offsets, 1, timestamp, FALSE)

\* The sparse form writing false where line 292 writes true.
timestamp_filter_sparse_clears(T, b, offsets, timestamp) ==
    LET cnt == Len(b)
    IN  IF T[cnt] <= timestamp THEN b
        ELSE [i \in 1..cnt |->
                IF (\E k \in 1..Len(offsets) : offsets[k] = i - 1) /\ T[i] > timestamp
                THEN FALSE ELSE b[i]]

\* timestamp_filter(BitsetType&, const std::vector<int64_t>&, Timestamp), for
\* a bitset of at least one bit and offsets inside it.
timestamp_filter_sparse(T, b, offsets, timestamp) ==
    LET cnt == Len(b)
    IN  IF T[cnt] <= timestamp THEN b
        ELSE sparse_loop(T, b, offsets, 1, timestamp, TRUE)

----------------------------------------------------------------------------
(* SpecFilter: the plan visitor builds a bitset and filters it.            *)

InitFilter ==
    /\ schema \in {SchemaOf("INT64", TRUE)}
    /\ variable_fields_avg_size_ = EmptyTable
    /\ observed = NothingObserved
    /\ setCalls = 0
    /\ last = Idle
    /\ results = EmptySearchResult
    /\ filledLen = -1
    /\ timestamps \in TimestampArrays
    /\ bitset = <<>>
    /\ mutex_ = FreeMutex
    /\ pc = [t \in Threads |-> "idle"]
    /\ op = [t \in Threads |-> "none"]
    /\ local = [t \in Threads |-> NoLocals]
    /\ calls = 0
    /\ skipIndex_ = {}
    /\ index_meta = DefaultIndexMeta
    /\ search_info_ = DefaultSearchInfo

\* The visitor's predicate evaluation leaves a bitset over the first n rows.
LoadBitset ==
    /\ last = Idle
    /\ \E n \in 0..Len(timestamps) :
      \E b \in [1..n -> BOOLEAN] :
        /\ b # bitset
        /\ bitset' = b
        /\ UNCHANGED <<last, results, filledLen>>
        /\ SegmentUnchanged /\ IndexUnchanged /\ LockUnchanged /\ EstimatorUnchanged

\* std::size_t's largest value, at the width of 32-bit integers.
SIZE_MAX == 2147483647

\* The index cnt - 1 of lines 263 and 284, computed in std::size_t.
fast_exit_index(cnt) == IF cnt = 0 THEN SIZE_MAX ELSE cnt - 1

\* With an empty bitset both forms read timestamps[cnt - 1] at index
\* SIZE_MAX: the value read is undefined, and nothing is written on either
\* branch.
TimestampFilterDense ==
    /\ last = Idle
    /\ \E timestamp \in Snapshots :
        /\ IF Len(bitset) = 0
           THEN /\ bitset' = bitset
                /\ last' = [op |-> "timestamp_filter_dense", timestamp |-> timestamp,
                            offsets |-> <<>>, before |-> bitset,
                            read_index |-> fast_exit_index(Len(bitset)), status |-> "undefined_read"]
           ELSE /\ bitset' = timestamp_filter_dense(timestamps, bitset, timestamp)
                /\ last' = [op |-> "timestamp_filter_dense", timestamp |-> timestamp,
                            offsets |-> <<>>, before |-> bitset,
                            read_index |-> fast_exit_index(Len(bitset)), status |-> "ok"]
        /\ UNCHANGED <<results, filledLen>>
        /\ SegmentUnchanged /\ IndexUnchanged /\ LockUnchanged /\ EstimatorUnchanged

TimestampFilterSparse ==
    /\ last = Idle
    /\ \E timestamp \in Snapshots, C \in SUBSET (0..(Len(bitset) - 1)) :
        /\ IF Len(bitset) = 0
           THEN /\ bitset' = bitset
                /\ last' = [op |-> "timestamp_filter_sparse", timestamp |-> timestamp,
                            offsets |-> <<>>, before |-> bitset,
                            read_index |-> fast_exit_index(Len(bitset)), status |-> "undefined_read"]
           ELSE /\ bitset' = timestamp_filter_sparse(timestamps, bitset, SortedSeq(C), timestamp)
                /\ last' = [op |-> "timestamp_filter_sparse", timestamp |-> timestamp,
                            offsets |-> SortedSeq(C), before |-> bitset,
                            read_index |-> fast_exit_index(Len(bitset)), status |-> "ok"]
        /\ UNCHANGED <<results, filledLen>>
        /\ SegmentUnchanged /\ IndexUnchanged /\ LockUnchanged /\ EstimatorUnchanged

NextFilter ==
    \/ LoadBitset
    \/ TimestampFilterDense
    \/ TimestampFilterSparse
    \/ Return

SpecFilter == InitFilter /\ [][NextFilter]_vars

----------------------------------------------------------------------------
(* SpecCount: count plans and get_real_count on segments of every size.    *)

\* MAX_TIMESTAMP and INT64_MAX (line 191), at the width of 32-bit integers:
\* above every timestamp and every budget sum of the model.
MAX_TIMESTAMP == 2147483647
INT64_MAX == 2147483647

\* Rows of the segment inserted at or before the snapshot.
VisibleRows(T, timestamp) == Cardinality({i \in 1..Len(T) : T[i] <= timestamp})

\* What the plan visitor hands back for a count plan at a snapshot: no offsets
\* and one count column; the count is the number of visible rows the plan's
\* predicate accepts, all of them when the plan has no predicate.
VisitorCountResults(T, timestamp, has_predicate) ==
    {[result_offsets_ |-> <<>>, field_data_ |-> <<wrap_num_entities(c)>>] :
        c \in (IF has_predicate THEN 0 ELSE VisibleRows(T, timestamp))..VisibleRows(T, timestamp)}

\* The plan get_real_count builds (lines 188-190).
RealCountPlan == [field_ids_ |-> <<>>, is_count_ |-> TRUE]

\* get_real_count returning the number of columns of the result.
get_real_count_of_columns(table, sch, retrieve_results) ==
    LET res == RetrieveCall(table, sch, RealCountPlan, retrieve_results, INT64_MAX)
    IN  IF res.status # "ok" THEN [status |-> res.status, val |-> 0, res |-> res]
        ELSE [status |-> "ok", val |-> Len(res.results.fields_data), res |-> res]

\* SegmentInternalInterface::get_real_count as one call, given what the plan
\* visitor hands to its Retrieve.
get_real_count(table, sch, retrieve_results) ==
    LET res == RetrieveCall(table, sch, RealCountPlan, retrieve_results, INT64_MAX)
    IN  IF res.status # "ok" THEN [status |-> res.status, val |-> 0, res |-> res]
        ELSE IF Len(res.results.fields_data) # 1
        THEN [status |-> "AssertError", val |-> 0, res |-> res]
        ELSE IF Len(res.results.fields_data[1].scalars.long_data) # 1
        THEN [status |-> "AssertError", val |-> 0, res |-> res]
        ELSE [status |-> "ok", val |-> res.results.fields_data[1].scalars.long_data[1],
              res |-> res]

\* Field lists of the count plans callers send.
CountPlanFields == SeqsUpTo(FieldIds, 1)
CountLimits == {0, 1, MaxLimit}
CountSnapshots == Snapshots \cup {MAX_TIMESTAMP}

InitCount ==
    /\ schema \in Schemas
    /\ variable_fields_avg_size_ \in LoadedTables(schema)
    /\ observed = ObservedOf(variable_fields_avg_size_)
    /\ setCalls = 0
    /\ last = Idle
    /\ results = EmptySearchResult
    /\ filledLen = -1
    /\ timestamps \in TimestampArrays
    /\ bitset = <<>>
    /\ mutex_ = FreeMutex
    /\ pc = [t \in Threads |-> "idle"]
    /\ op = [t \in Threads |-> "none"]
    /\ local = [t \in Threads |-> NoLocals]
    /\ calls = 0
    /\ skipIndex_ = {}
    /\ index_meta = DefaultIndexMeta
    /\ search_info_ = DefaultSearchInfo

GetRealCount ==
    /\ last = Idle
    /\ \E retrieve_results \in VisitorCountResults(timestamps, MAX_TIMESTAMP, FALSE) :
        LET r == get_real_count(variable_fields_avg_size_, schema, retrieve_results)
        IN  /\ last' = [op |-> "get_real_count", plan |-> RealCountPlan,
                        timestamp |-> MAX_TIMESTAMP, limit_size |-> INT64_MAX,
                        result_offsets_ |-> retrieve_results.result_offsets_,
                        field_data_ |-> retrieve_results.field_data_,
                        status |-> r.status, val |-> r.val,
                        retrieve_status |-> r.res.status, results |-> r.res.results,
                        fetches |-> r.res.fetches]
            /\ UNCHANGED <<results, filledLen, bitset>>
            /\ SegmentUnchanged /\ IndexUnchanged /\ LockUnchanged /\ EstimatorUnchanged

\* Retrieve called with a count plan.
RetrieveCount ==
    /\ last = Idle
    /\ \E field_ids \in CountPlanFields, timestamp \in CountSnapshots,
          limit_size \in CountLimits :
        \E retrieve_results \in VisitorCountResults(timestamps, timestamp, TRUE) :
          LET plan == [field_ids_ |-> field_ids, is_count_ |-> TRUE]
              r == RetrieveCall(variable_fields_avg_size_, schema, plan,
                                retrieve_results, limit_size)
          IN  /\ last' = [op |-> "Retrieve", plan |-> plan, timestamp |-> timestamp,
                          limit_size |-> limit_size,
                          result_offsets_ |-> retrieve_results.result_offsets_,
                          field_data_ |-> retrieve_results.field_data_,
                          status |-> r.status, results |-> r.results, fetches |-> r.fetches]
              /\ UNCHANGED <<results, filledLen, bitset>>
              /\ SegmentUnchanged /\ IndexUnchanged /\ LockUnchanged /\ EstimatorUnchanged

NextCount == GetRealCount \/ RetrieveCount \/ Return

SpecCount == InitCount /\ [][NextCount]_vars

----------------------------------------------------------------------------
(* SpecMetric: a caller builds search plans and has their metric checked.  *)

\* An empty metric_type_ string.
NoMetric == ""

\* check_metric_type with lines 326-328 left out.
check_metric_type_no_default(search_info, idx_meta) ==
    LET field_index_metric == idx_meta[search_info.field_id_]
    IN  IF search_info.metric_type_ # field_index_metric
        THEN [status |-> "MetricTypeNotMatch", search_info |-> search_info]
        ELSE [status |-> "ok", search_info |-> search_info]

\* SegmentInternalInterface::check_metric_type as one call: whether it threw
\* and the plan's search_info_ it leaves (metric_str is a reference into it).
check_metric_type(search_info, idx_meta) ==
    LET field_index_metric == idx_meta[search_info.field_id_]
        defaulted == IF search_info.metric_type_ = NoMetric
                     THEN [search_info EXCEPT !.metric_type_ = field_index_metric]
                     ELSE search_info
    IN  IF defaulted.metric_type_ # field_index_metric
        THEN [status |-> "MetricTypeNotMatch", search_info |-> defaulted]
        ELSE [status |-> "ok", search_info |-> defaulted]

InitMetric ==
    /\ schema = SchemaOf("INT64", TRUE)
    /\ variable_fields_avg_size_ = EmptyTable
    /\ observed = NothingObserved
    /\ setCalls = 0
    /\ last = Idle
    /\ results = EmptySearchResult
    /\ filledLen = -1
    /\ timestamps = <<>>
    /\ bitset = <<>>
    /\ mutex_ = FreeMutex
    /\ pc = [t \in Threads |-> "idle"]
    /\ op = [t \in Threads |-> "none"]
    /\ local = [t \in Threads |-> NoLocals]
    /\ calls = 0
    /\ skipIndex_ = {}
    /\ index_meta \in [VectorFields -> MetricTypes]
    /\ search_info_ = DefaultSearchInfo

\* The caller builds its next search plan.
SetSearchInfo ==
    /\ last = Idle
    /\ \E metric \in MetricTypes \cup {NoMetric}, field_id \in VectorFields :
        /\ search_info_' = [metric_type_ |-> metric, field_id_ |-> field_id]
        /\ search_info_' # search_info_
        /\ UNCHANGED <<last, results, filledLen, bitset, skipIndex_, index_meta>>
        /\ SegmentUnchanged /\ LockUnchanged /\ EstimatorUnchanged

CheckMetricType ==
    /\ last = Idle
    /\ LET r == check_metric_type(search_info_, index_meta)
       IN  /\ search_info_' = r.search_info
           /\ last' = [op |-> "check_metric_type", before |-> search_info_,
                       status |-> r.status]
    /\ UNCHANGED <<results, filledLen, bitset, skipIndex_, index_meta>>
    /\ SegmentUnchanged /\ LockUnchanged /\ EstimatorUnchanged

NextMetric == SetSearchInfo \/ CheckMetricType \/ Return

SpecMetric == InitMetric /\ [][NextMetric]_vars

----------------------------------------------------------------------------
(* Spec: threads call the interface concurrently on one segment; every     *)
(* lock operation is a step of its own.                                    *)

QueryOps == {"Search", "Retrieve", "FillPrimaryKeys", "FillTargetEntry"}

\* std::unique_lock taking the mutex while shared holders exist.
can_lock_ignoring_readers(m) == m.writer = NoThread

\* std::unique_lock lck(mutex_) (line 242) can take the mutex.
can_lock(m) ==
    /\ m.writer = NoThread
    /\ \A t \in Threads : m.readers[t] = 0

\* std::shared_lock taking the mutex while a thread owns it exclusively.
can_lock_shared_ignoring_writer(m) == m.writer_first => m.waiting = {}

\* std::shared_lock lck(mutex_) (lines 28, 53, 72, 86, 219) can take the mutex.
\* A thread that already holds it in shared mode (Retrieve calling
\* get_field_avg_size) has undefined behaviour by the standard: builds either
\* let it in when no writer owns the mutex, or make it wait behind a blocked
\* writer like any other reader.
can_lock_shared(m) ==
    /\ m.writer = NoThread
    /\ m.writer_first => m.waiting = {}

\* The chunks the loader adds to the SkipIndex.
SkipIndexChunks == {<<Int8FieldID, 0>>}

\* Plans of the Retrieve calls made concurrently.
ConcurrentPlans == {<<RowFieldID, VarFieldID>>, <<PkFieldID, VarFieldID>>}

Init ==
    /\ schema = SchemaOf("VARCHAR", TRUE)
    /\ variable_fields_avg_size_ = EmptyTable
    /\ observed = NothingObserved
    /\ setCalls = 0
    /\ last = Idle
    /\ results = EmptySearchResult
    /\ filledLen = -1
    /\ timestamps = <<>>
    /\ bitset = <<>>
    /\ mutex_ \in {[FreeMutex EXCEPT !.writer_first = w] : w \in BOOLEAN}
    /\ pc = [t \in Threads |-> "idle"]
    /\ op = [t \in Threads |-> "none"]
    /\ local = [t \in Threads |-> NoLocals]
    /\ calls = 0
    /\ skipIndex_ = {}
    /\ index_meta = DefaultIndexMeta
    /\ search_info_ = DefaultSearchInfo

SequentialUnchanged == UNCHANGED <<last, results, filledLen, bitset, setCalls>>

\* A thread enters Search, FillPrimaryKeys or FillTargetEntry.
InvokeQuery(t) ==
    \E o \in QueryOps \ {"Retrieve"} :
        /\ pc[t] = "idle" /\ calls < MaxCalls
        /\ calls' = calls + 1
        /\ op' = [op EXCEPT ![t] = o]
        /\ local' = [local EXCEPT ![t] = NoLocals]
        /\ pc' = [pc EXCEPT ![t] = "lock_shared"]
        /\ UNCHANGED <<mutex_, variable_fields_avg_size_, observed>>
        /\ SegmentUnchanged /\ IndexUnchanged /\ SequentialUnchanged

InvokeRetrieve(t) ==
    \E field_ids \in ConcurrentPlans, limit_size \in {0, MaxLimit} :
        /\ pc[t] = "idle" /\ calls < MaxCalls
        /\ calls' = calls + 1
        /\ op' = [op EXCEPT ![t] = "Retrieve"]
        /\ local' = [local EXCEPT ![t] = [NoLocals EXCEPT !.field_ids = field_ids,
                                                          !.limit_size = limit_size]]
        /\ pc' = [pc EXCEPT ![t] = "lock_shared"]
        /\ UNCHANGED <<mutex_, variable_fields_avg_size_, observed>>
        /\ SegmentUnchanged /\ IndexUnchanged /\ SequentialUnchanged

\* get_real_count: a Retrieve with a count plan, no requested fields and limit
\* INT64_MAX (lines 188-191).
InvokeGetRealCount(t) ==
    /\ pc[t] = "idle" /\ calls < MaxCalls
    /\ calls' = calls + 1
    /\ op' = [op EXCEPT ![t] = "get_real_count"]
    /\ local' = [local EXCEPT ![t] = [NoLocals EXCEPT !.limit_size = INT64_MAX]]
    /\ pc' = [pc EXCEPT ![t] = "lock_shared"]
    /\ UNCHANGED <<mutex_, variable_fields_avg_size_, observed>>
    /\ SegmentUnchanged /\ IndexUnchanged /\ SequentialUnchanged

\* LoadPrimitiveSkipIndex / LoadStringSkipIndex (lines 302-317): the loader
\* adds a chunk to the SkipIndex; neither takes mutex_.
LoadSkipIndex ==
    \E chunk \in SkipIndexChunks :
        /\ calls < MaxCalls
        /\ chunk \notin skipIndex_
        /\ calls' = calls + 1
        /\ skipIndex_' = skipIndex_ \cup {chunk}
        /\ UNCHANGED <<mutex_, pc, op, local, variable_fields_avg_size_, observed>>
        /\ UNCHANGED <<index_meta, search_info_>>
        /\ SegmentUnchanged /\ SequentialUnchanged

\* get_field_avg_size called on its own, for a user field (lines 215-219).
InvokeGetFieldAvgSize(t) ==
    \E field_id \in {VarFieldID} :
        /\ pc[t] = "idle" /\ calls < MaxCalls
        /\ calls' = calls + 1
        /\ op' = [op EXCEPT ![t] = "get_field_avg_size"]
        /\ local' = [local EXCEPT ![t] = [NoLocals EXCEPT !.field_ids = <<field_id>>,
                                                          !.i = 1, !.result_rows = 1]]
        /\ pc' = [pc EXCEPT ![t] = "avg_lock_shared"]
        /\ UNCHANGED <<mutex_, variable_fields_avg_size_, observed>>
        /\ SegmentUnchanged /\ IndexUnchanged /\ SequentialUnchanged

\* set_field_avg_size up to line 242.
InvokeSetFieldAvgSize(t) ==
    \E field_id \in {VarFieldID, Int8FieldID}, field_size \in {1, MaxBatchSize} :
        /\ pc[t] = "idle" /\ calls < MaxCalls
        /\ field_id = Int8FieldID => field_size = 1
        /\ calls' = calls + 1
        /\ op' = [op EXCEPT ![t] = "set_field_avg_size"]
        /\ local' = [local EXCEPT ![t] = [NoLocals EXCEPT !.field_ids = <<field_id>>,
                                                          !.num_rows = 1,
                                                          !.field_size = field_size]]
        /\ pc' = [pc EXCEPT ![t] = "lock"]
        /\ UNCHANGED <<mutex_, variable_fields_avg_size_, observed>>
        /\ SegmentUnchanged /\ IndexUnchanged /\ SequentialUnchanged

\* std::shared_lock lck(mutex_) of a query-path operation.
LockShared(t) ==
    /\ pc[t] = "lock_shared"
    /\ can_lock_shared(mutex_)
    /\ mutex_' = [mutex_ EXCEPT !.readers[t] = @ + 1]
    /\ pc' = [pc EXCEPT ![t] = "locked"]
    /\ UNCHANGED <<op, local, calls, variable_fields_avg_size_, observed>>
    /\ SegmentUnchanged /\ IndexUnchanged /\ SequentialUnchanged

\* The body of Search, FillPrimaryKeys, FillTargetEntry; for Retrieve (called
\* directly or by get_real_count) the plan visitor (lines 87-93), which hands
\* back no offsets for the count plan of get_real_count.
Body(t) ==
    /\ pc[t] = "locked"
    /\ IF op[t] \in {"Retrieve", "get_real_count"}
       THEN \E rows \in (IF op[t] = "Retrieve" THEN {1} ELSE {0}) :
              /\ local' = [local EXCEPT ![t].result_rows = rows, ![t].i = 1,
                                        ![t].output_data_size = 0]
              /\ pc' = [pc EXCEPT ![t] = "avg_call"]
       ELSE /\ local' = [local EXCEPT ![t].status = "ok"]
            /\ pc' = [pc EXCEPT ![t] = "unlock_shared"]
    /\ UNCHANGED <<op, calls, mutex_, variable_fields_avg_size_, observed>>
    /\ SegmentUnchanged /\ IndexUnchanged /\ SequentialUnchanged

\* Lines 94-101 and 205-217: the next field of the budget loop, up to the lock
\* of get_field_avg_size; after the last field the budget test.
AvgCall(t) ==
    /\ pc[t] = "avg_call"
    /\ LET l == local[t] IN
       IF l.i > Len(l.field_ids)
       THEN /\ local' = [local EXCEPT ![t].status =
                            IF exceeds_limit(l.output_data_size, l.limit_size)
                            THEN "RetrieveError" ELSE "ok"]
            /\ pc' = [pc EXCEPT ![t] = "unlock_shared"]
       ELSE IF IsSystem(l.field_ids[l.i])
       THEN LET avg == get_field_avg_size(variable_fields_avg_size_, schema, l.field_ids[l.i])
            IN IF avg.status = "ok"
               THEN /\ local' = [local EXCEPT ![t].i = @ + 1,
                                    ![t].output_data_size = @ + avg.val * l.result_rows]
                    /\ pc' = pc
               ELSE /\ local' = [local EXCEPT ![t].status = avg.status]
                    /\ pc' = [pc EXCEPT ![t] = "unlock_shared"]
       ELSE /\ local' = local
            /\ pc' = [pc EXCEPT ![t] = "avg_lock_shared"]
    /\ UNCHANGED <<op, calls, mutex_, variable_fields_avg_size_, observed>>
    /\ SegmentUnchanged /\ IndexUnchanged /\ SequentialUnchanged

\* std::shared_lock lck(mutex_) of get_field_avg_size (line 219).
AvgLockShared(t) ==
    /\ pc[t] = "avg_lock_shared"
    /\ can_lock_shared(mutex_)
    /\ mutex_' = [mutex_ EXCEPT !.readers[t] = @ + 1]
    /\ pc' = [pc EXCEPT ![t] = "avg_read"]
    /\ UNCHANGED <<op, local, calls, variable_fields_avg_size_, observed>>
    /\ SegmentUnchanged /\ IndexUnchanged /\ SequentialUnchanged

\* Lines 220-229: the read of the table and the release of the inner lock.
AvgRead(t) ==
    /\ pc[t] = "avg_read"
    /\ LET l == local[t]
           avg == get_field_avg_size(variable_fields_avg_size_, schema, l.field_ids[l.i])
       IN  IF op[t] = "Retrieve"
           THEN /\ local' = [local EXCEPT ![t].i = @ + 1,
                                ![t].output_data_size = @ + avg.val * l.result_rows]
                /\ pc' = [pc EXCEPT ![t] = "avg_call"]
                /\ op' = op
           ELSE /\ local' = [local EXCEPT ![t] = NoLocals]
                /\ pc' = [pc EXCEPT ![t] = "idle"]
                /\ op' = [op EXCEPT ![t] = "none"]
    /\ mutex_' = [mutex_ EXCEPT !.readers[t] = @ - 1]
    /\ UNCHANGED <<calls, variable_fields_avg_size_, observed>>
    /\ SegmentUnchanged /\ IndexUnchanged /\ SequentialUnchanged

\* The shared_lock of a query-path operation is released as it returns or
\* throws; the locals of the call end with it.
UnlockShared(t) ==
    /\ pc[t] = "unlock_shared"
    /\ mutex_' = [mutex_ EXCEPT !.readers[t] = @ - 1]
    /\ pc' = [pc EXCEPT ![t] = "idle"]
    /\ op' = [op EXCEPT ![t] = "none"]
    /\ local' = [local EXCEPT ![t] = NoLocals]
    /\ UNCHANGED <<calls, variable_fields_avg_size_, observed>>
    /\ SegmentUnchanged /\ IndexUnchanged /\ SequentialUnchanged

\* std::unique_lock lck(mutex_): the thread starts to wait for the mutex.
LockArrive(t) ==
    /\ pc[t] = "lock"
    /\ mutex_' = [mutex_ EXCEPT !.waiting = @ \cup {t}]
    /\ pc' = [pc EXCEPT ![t] = "lock_wait"]
    /\ UNCHANGED <<op, local, calls, variable_fields_avg_size_, observed>>
    /\ SegmentUnchanged /\ IndexUnchanged /\ SequentialUnchanged

LockAcquire(t) ==
    /\ pc[t] = "lock_wait"
    /\ can_lock(mutex_)
    /\ mutex_' = [mutex_ EXCEPT !.writer = t, !.waiting = @ \ {t}]
    /\ pc' = [pc EXCEPT ![t] = "update"]
    /\ UNCHANGED <<op, local, calls, variable_fields_avg_size_, observed>>
    /\ SegmentUnchanged /\ IndexUnchanged /\ SequentialUnchanged

\* Lines 243-255 under the exclusive lock.
Update(t) ==
    /\ pc[t] = "update"
    /\ LET l == local[t]
           r == set_field_avg_size_update(variable_fields_avg_size_, schema,
                                          l.field_ids[1], l.num_rows, l.field_size)
       IN  /\ variable_fields_avg_size_' = r.table
           /\ observed' = IF r.status = "ok" /\ l.field_ids[1] \in VariableFields(schema)
                          THEN [observed EXCEPT ![l.field_ids[1]] =
                                   [rows |-> @.rows + l.num_rows, size |-> @.size + l.field_size]]
                          ELSE observed
           /\ local' = [local EXCEPT ![t].status = r.status]
    /\ pc' = [pc EXCEPT ![t] = "unlock"]
    /\ UNCHANGED <<op, calls, mutex_>>
    /\ SegmentUnchanged /\ IndexUnchanged /\ SequentialUnchanged

Unlock(t) ==
    /\ pc[t] = "unlock"
    /\ mutex_' = [mutex_ EXCEPT !.writer = NoThread]
    /\ pc' = [pc EXCEPT ![t] = "idle"]
    /\ op' = [op EXCEPT ![t] = "none"]
    /\ local' = [local EXCEPT ![t] = NoLocals]
    /\ UNCHANGED <<calls, variable_fields_avg_size_, observed>>
    /\ SegmentUnchanged /\ IndexUnchanged /\ SequentialUnchanged

Next ==
    \/ LoadSkipIndex
    \/ \E t \in Threads :
        \/ InvokeQuery(t)
        \/ InvokeRetrieve(t)
        \/ InvokeGetRealCount(t)
        \/ InvokeGetFieldAvgSize(t)
        \/ InvokeSetFieldAvgSize(t)
        \/ LockShared(t)
        \/ Body(t)
        \/ AvgCall(t)
        \/ AvgLockShared(t)
        \/ AvgRead(t)
        \/ UnlockShared(t)
        \/ LockArrive(t)
        \/ LockAcquire(t)
        \/ Update(t)
        \/ Unlock(t)

Spec == Init /\ [][Next]_vars

----------------------------------------------------------------------------
(* Claims about the budget check of Retrieve (SpecRetrieve)                *)

\* Every requested field of the recorded Retrieve has an average size.
AvgDefined ==
    \A i \in 1..Len(last.plan.field_ids_) :
        get_field_avg_size(variable_fields_avg_size_, schema, last.plan.field_ids_[i]).status = "ok"

AvgOf(field_id) == get_field_avg_size(variable_fields_avg_size_, schema, field_id).val

RECURSIVE SumSeq(_)
SumSeq(q) == IF q = <<>> THEN 0 ELSE Head(q) + SumSeq(Tail(q))

MatchedRows == Len(last.result_offsets_)

\* S: the sum over the requested field ids of average size x matched rows.
BudgetS ==
    SumSeq([i \in 1..Len(last.plan.field_ids_) |->
               AvgOf(last.plan.field_ids_[i]) * MatchedRows])

\* C1: a Retrieve whose sum S of average size x matched rows over the requested
\* fields exceeds limit_size fails with RetrieveError, and one with
\* S = limit_size - 1 is not rejected by the budget check.
C1_BudgetCheck ==
    (last.op = "Retrieve" /\ AvgDefined) =>
        /\ BudgetS > last.limit_size => last.status = "RetrieveError"
        /\ BudgetS = last.limit_size - 1 => last.status # "RetrieveError"

C1_Witness ==
    /\ last.op = "Retrieve" /\ AvgDefined
    /\ Len(last.plan.field_ids_) = 2 /\ MatchedRows = 2
    /\ BudgetS > 0 /\ BudgetS = last.limit_size - 1
    /\ last.status = "ok"

\* Some requested field of the recorded Retrieve has a non-zero average size.
SomeNonZeroAvg ==
    \E i \in 1..Len(last.plan.field_ids_) : AvgOf(last.plan.field_ids_[i]) # 0

LimitOneCase ==
    /\ last.op = "Retrieve" /\ AvgDefined
    /\ last.limit_size = 1 /\ ~last.plan.is_count_
    /\ MatchedRows >= 1 /\ SomeNonZeroAvg

\* C2 as stated: with limit_size = 1, every non-count Retrieve with at least one
\* matched row and a requested field of non-zero average size fails with
\* RetrieveError (one row of one field of average size 1 included).
C2_Original == LimitOneCase => last.status = "RetrieveError"

\* C2 amended: with limit_size = 1 such a Retrieve fails with RetrieveError
\* exactly when S > 1; one matched row whose requested average sizes sum to 1
\* (S = 1 = limit_size) passes the budget check.
C2_LimitOne == LimitOneCase => (last.status = "RetrieveError" <=> BudgetS > 1)

C2_Witness ==
    /\ LimitOneCase /\ MatchedRows = 1 /\ BudgetS = 2
    /\ last.status = "RetrieveError"

----------------------------------------------------------------------------
(* Claims about the field-size estimator (SpecEstimator)                   *)

\* C4: for a variable-length field the stored running average equals
\* (sum of field_size) / (sum of num_rows) over all batches observed, and the
\* stored row count equals the sum of num_rows.
C4_RunningAverage ==
    \A f \in VariableFields(schema) :
        observed[f].rows > 0 =>
            /\ variable_fields_avg_size_[f].present
            /\ variable_fields_avg_size_[f].first = observed[f].rows
            /\ get_field_avg_size(variable_fields_avg_size_, schema, f).val
                   = observed[f].size \div observed[f].rows

----------------------------------------------------------------------------
(* Claims about FillPrimaryKeys (SpecFill)                                 *)

SecondFill ==
    /\ last.op = "FillPrimaryKeys"
    /\ last.filled_before >= 0

\* C3 as stated: for a SearchResult of any length, zero included, a
\* FillPrimaryKeys call made after a successful one without resetting
\* primary_keys_ fails its precondition and does not fill again.
C3_Original ==
    SecondFill => (last.status = "AssertError" /\ results = last.before)

\* C3 amended: for a SearchResult that had at least one offset/distance when it
\* was filled, a FillPrimaryKeys call made after the successful one without
\* resetting primary_keys_ fails its precondition and leaves the result as it
\* was.  (A result filled at length zero still has an empty primary_keys_, and
\* the second call succeeds.)
C3_SecondFillFails ==
    (SecondFill /\ last.filled_before >= 1) =>
        (last.status = "AssertError" /\ results = last.before)

C3_Witness ==
    /\ SecondFill /\ last.filled_before = 2
    /\ last.plan_given
    /\ Len(last.before.seg_offsets_) = Len(last.before.distances_)
    /\ last.status = "AssertError"

----------------------------------------------------------------------------
(* Claims about the visibility filter (SpecFilter)                         *)

SetBits(b) == {i \in 0..(Len(b) - 1) : b[i + 1]}
OffsetSet(offsets) == {offsets[k] : k \in 1..Len(offsets)}
BitsetOf(C, n) == [i \in 1..n |-> (i - 1) \in C]
Flipped(b) == [i \in 1..Len(b) |-> ~b[i]]
Ts(offset) == timestamps[offset + 1]

DenseCall == last.op = "timestamp_filter_dense" /\ last.status = "ok"
SparseCall == last.op = "timestamp_filter_sparse" /\ last.status = "ok"

\* C5: on a shared candidate set C the two forms classify every offset of C
\* alike: the dense form, given the bitset of C, keeps the bit of an offset
\* exactly when its timestamp is <= the snapshot, and the sparse form, given
\* the offset list C (bits of C not yet marked), marks an offset exactly when
\* its timestamp is > the snapshot.
C5_FormsAgree ==
    /\ DenseCall =>
          LET C == SetBits(last.before)
              sparse == timestamp_filter_sparse(timestamps, Flipped(last.before),
                                                SortedSeq(C), last.timestamp)
          IN \A o \in C :
                /\ bitset[o + 1] <=> ~sparse[o + 1]
                /\ ~bitset[o + 1] <=> Ts(o) > last.timestamp
    /\ (SparseCall /\ OffsetSet(last.offsets) \cap SetBits(last.before) = {}) =>
          LET C == OffsetSet(last.offsets)
              dense == timestamp_filter_dense(timestamps, BitsetOf(C, Len(bitset)),
                                              last.timestamp)
          IN \A o \in C :
                /\ bitset[o + 1] <=> ~dense[o + 1]
                /\ bitset[o + 1] <=> Ts(o) > last.timestamp

C5_Witness ==
    /\ SparseCall
    /\ OffsetSet(last.offsets) \cap SetBits(last.before) = {}
    /\ \E o \in OffsetSet(last.offsets) : Ts(o) > last.timestamp /\ bitset[o + 1]
    /\ \E o \in OffsetSet(last.offsets) : Ts(o) <= last.timestamp /\ ~bitset[o + 1]

\* C6: after the dense form on a bitset of n >= 1 bits, bit i is set exactly
\* when it was set before and T[i] <= snapshot; with T = [10, 20, 30], all bits
\* set and snapshot 20, offsets 0 and 1 stay set and offset 2 is cleared.
C6_DensePostcondition ==
    DenseCall =>
        /\ Len(bitset) = Len(last.before)
        /\ \A i \in 0..(Len(bitset) - 1) :
              bitset[i + 1] <=> (last.before[i + 1] /\ Ts(i) <= last.timestamp)
        /\ (timestamps = <<10, 20, 30>> /\ last.before = <<TRUE, TRUE, TRUE>>
              /\ last.timestamp = 20) => bitset = <<TRUE, TRUE, FALSE>>

C6_Witness ==
    /\ DenseCall
    /\ timestamps = <<10, 20, 30>> /\ last.before = <<TRUE, TRUE, TRUE>>
    /\ last.timestamp = 20
    /\ bitset = <<TRUE, TRUE, FALSE>>

\* C7: for both forms, when the timestamp of the last row the bitset covers
\* is <= the snapshot, the call leaves every bit unchanged.
C7_FastExit ==
    ((DenseCall \/ SparseCall) /\ Ts(Len(last.before) - 1) <= last.timestamp) =>
        bitset = last.before

C7_Witness ==
    /\ SparseCall
    /\ Ts(Len(last.before) - 1) = last.timestamp
    /\ Len(last.offsets) = Len(last.before)
    /\ \E i \in 1..Len(bitset) : bitset[i]
    /\ \E i \in 1..Len(bitset) : ~bitset[i]

\* The candidates a call was given: for the dense form the set bits, for the
\* sparse form the listed offsets whose bit is set.
GivenCandidates ==
    IF last.op = "timestamp_filter_dense" THEN SetBits(last.before)
    ELSE OffsetSet(last.offsets) \cap SetBits(last.before)

\* C8 as stated: in both forms a set bit means candidate; after the call every
\* given candidate with timestamp > snapshot is not a candidate and every
\* given candidate with timestamp <= snapshot still is.
C8_Original ==
    (DenseCall \/ SparseCall) =>
        \A o \in GivenCandidates :
            /\ Ts(o) > last.timestamp => ~bitset[o + 1]
            /\ Ts(o) <= last.timestamp => bitset[o + 1]

\* C8 amended: the two forms mark with opposite bit values.  The dense form
\* clears the bit of every candidate with timestamp > snapshot and keeps the
\* others; the sparse form sets the bit of every listed offset with
\* timestamp > snapshot (a set bit there means filtered out), clears no bit and
\* leaves every other bit as it was.
C8_OppositeMarks ==
    /\ DenseCall =>
          \A o \in SetBits(last.before) :
              bitset[o + 1] <=> Ts(o) <= last.timestamp
    /\ SparseCall =>
          \A i \in 0..(Len(bitset) - 1) :
              bitset[i + 1] <=>
                  (last.before[i + 1]
                     \/ (i \in OffsetSet(last.offsets) /\ Ts(i) > last.timestamp))

C8_Witness ==
    /\ SparseCall
    /\ \E o \in OffsetSet(last.offsets) :
          Ts(o) > last.timestamp /\ ~last.before[o + 1] /\ bitset[o + 1]
    /\ \E o \in OffsetSet(last.offsets) :
          Ts(o) <= last.timestamp /\ ~last.before[o + 1] /\ ~bitset[o + 1]

----------------------------------------------------------------------------
(* Claims about the segment lock (Spec)                                    *)

\* Thread t is between taking and releasing a shared_lock of the mutex.
HoldsShared(t) ==
    \/ op[t] \in QueryOps /\ pc[t] \in {"locked", "avg_call", "avg_lock_shared",
                                        "avg_read", "unlock_shared"}
    \/ op[t] = "get_field_avg_size" /\ pc[t] = "avg_read"

\* Thread t is between taking and releasing the unique_lock of
\* set_field_avg_size.
InsideUpdate(t) == op[t] = "set_field_avg_size" /\ pc[t] \in {"update", "unlock"}

\* C9: while a set_field_avg_size call is inside its update of the estimator
\* table, no query-path operation holds the segment lock and no other
\* set_field_avg_size is inside its update.
C9_LockDiscipline ==
    \A t \in Threads :
        InsideUpdate(t) =>
            \A u \in Threads : ~HoldsShared(u) /\ (u # t => ~InsideUpdate(u))

C9_Witness ==
    \E t, u, v \in Threads :
        /\ t # u /\ u # v /\ t # v
        /\ pc[t] = "update"
        /\ op[u] \in QueryOps /\ pc[u] = "lock_shared"
        /\ op[v] = "set_field_avg_size" /\ pc[v] = "lock_wait"

\* Thread t waits for the mutex and cannot get it.
BlockedOnLock(t) ==
    \/ pc[t] \in {"lock_shared", "avg_lock_shared"} /\ ~can_lock_shared(mutex_)
    \/ pc[t] = "lock_wait" /\ ~can_lock(mutex_)

\* C10: every invoked call runs to completion; no reachable state has all
\* threads blocked on the segment lock.
C10_NoLockDeadlock == \E t \in Threads : ~BlockedOnLock(t)

\* C20: for every bitset length n >= 0, the empty bitset included, and every
\* snapshot, both forms of timestamp_filter read the timestamp array only at
\* indexes in [0, n) and leave the bitset with its n bits.
C20_BoundsSafety ==
    last.op \in {"timestamp_filter_dense", "timestamp_filter_sparse"} =>
        /\ last.read_index \in 0..(Len(last.before) - 1)
        /\ last.status = "ok"
        /\ Len(bitset) = Len(last.before)

----------------------------------------------------------------------------
(* Claims about the admission check and the projection of Retrieve         *)
(* (SpecRetrieve)                                                          *)

\* C11: a Retrieve that ends with RetrieveError has made no bulk_subscript
\* fetch and hands the caller no result (no offsets, no columns, no ids); a
\* Retrieve that made a fetch has passed the budget check before it.
C11_PreflightRejection ==
    last.op = "Retrieve" =>
        /\ last.status = "RetrieveError" =>
              /\ last.fetches = 0
              /\ ~last.results.returned
              /\ last.results.offset = <<>> /\ last.results.fields_data = <<>>
              /\ last.results.ids.data = <<>>
        /\ last.fetches > 0 => (AvgDefined /\ BudgetS <= last.limit_size)

C11_Witness ==
    /\ last.op = "Retrieve" /\ last.status = "RetrieveError"
    /\ ~last.plan.is_count_
    /\ Len(last.plan.field_ids_) = 2 /\ MatchedRows = 2
    /\ last.fetches = 0 /\ ~last.results.returned

\* The recorded Retrieve is a non-count call that passed the budget check.
PassesBudget ==
    /\ last.op = "Retrieve" /\ ~last.plan.is_count_
    /\ AvgDefined /\ BudgetS <= last.limit_size

\* Positions of the schema's primary-key field in the requested fields.
PkPositions ==
    {i \in 1..Len(last.plan.field_ids_) :
        schema.primary_field_id # NoField /\ last.plan.field_ids_[i] = schema.primary_field_id}

PkType == schema.fields[schema.primary_field_id].data_type

\* The output column of the primary-key field at the matched offsets.
PkColumn == bulk_subscript(schema.primary_field_id, last.result_offsets_).data

IdsKindOf(data_type) == IF data_type = "INT64" THEN "int_id" ELSE "str_id"

RECURSIVE Copies(_, _)
Copies(q, k) == IF k = 0 THEN <<>> ELSE q \o Copies(q, k - 1)

\* C17 as stated: whenever the primary-key field is among the requested fields
\* (with type INT64 or VARCHAR), ids hold exactly the values of its output
\* column, with the length of the matched offsets.
C17_Original ==
    PassesBudget =>
        /\ (PkPositions # {} /\ IsPrimaryKeyDataType(PkType)) =>
               /\ last.status = "ok"
               /\ last.results.ids.kind = IdsKindOf(PkType)
               /\ last.results.ids.data = PkColumn
               /\ Len(last.results.ids.data) = MatchedRows
        /\ (PkPositions # {} /\ ~IsPrimaryKeyDataType(PkType)) =>
               (last.status = "DataTypeInvalid" /\ ~last.results.returned)
        /\ PkPositions = {} =>
               (last.status = "ok" /\ last.results.ids.data = <<>>
                /\ last.results.ids.kind = "none")

\* C17 amended: for a non-count plan that passes the budget check, if the
\* primary-key field is listed exactly once among the requested fields and has
\* type INT64 or VARCHAR, ids hold exactly the values of its output column, in
\* the order and with the length of the matched offsets, as int_id or str_id;
\* listed k times, ids hold k copies of that column one after the other; with
\* any other type the call fails with DataTypeInvalid and returns no result;
\* not listed, ids stay empty.
C17_PkProjection ==
    PassesBudget =>
        /\ (PkPositions # {} /\ IsPrimaryKeyDataType(PkType)) =>
               /\ last.status = "ok"
               /\ last.results.ids.kind = IdsKindOf(PkType)
               /\ last.results.ids.data = Copies(PkColumn, Cardinality(PkPositions))
               /\ Cardinality(PkPositions) = 1 =>
                      /\ last.results.ids.data = PkColumn
                      /\ Len(last.results.ids.data) = MatchedRows
                      /\ \A i \in 1..MatchedRows :
                             last.results.ids.data[i] =
                                 <<schema.primary_field_id, last.result_offsets_[i]>>
        /\ (PkPositions # {} /\ ~IsPrimaryKeyDataType(PkType)) =>
               (last.status = "DataTypeInvalid" /\ ~last.results.returned)
        /\ PkPositions = {} =>
               (last.status = "ok" /\ last.results.ids.data = <<>>
                /\ last.results.ids.kind = "none")

C17_Witness ==
    /\ PassesBudget
    /\ last.plan.field_ids_ = <<VarFieldID, PkFieldID>>
    /\ schema = SchemaOf("VARCHAR", TRUE)
    /\ MatchedRows = 2
    /\ last.status = "ok"
    /\ last.results.ids = [kind |-> "str_id", data |-> PkColumn]

----------------------------------------------------------------------------
(* Claims about count plans (SpecCount)                                    *)

\* C12: get_real_count issues a count-only Retrieve with no requested fields,
\* timestamp MAX_TIMESTAMP and limit INT64_MAX; that Retrieve is not rejected
\* by the size budget whatever the segment and the estimator table hold; the
\* value returned is the single row of the single count column, which is the
\* number of rows of the segment.
C12_RealCount ==
    last.op = "get_real_count" =>
        /\ last.plan.is_count_ /\ last.plan.field_ids_ = <<>>
        /\ last.timestamp = MAX_TIMESTAMP /\ last.limit_size = INT64_MAX
        /\ last.retrieve_status # "RetrieveError"
        /\ last.status = "ok"
        /\ Len(last.results.fields_data) = 1
        /\ last.results.fields_data[1].scalars.long_data = <<last.val>>
        /\ last.val = Len(timestamps)

C12_Witness ==
    /\ last.op = "get_real_count" /\ last.status = "ok"
    /\ Len(timestamps) = 3 /\ last.val = 3
    /\ variable_fields_avg_size_[VarFieldID].second = MaxAvg

----------------------------------------------------------------------------
(* Claims about the SearchResult (SpecFill)                                *)

\* The caller has not shortened seg_offsets_ or distances_ since the fill.
Untrimmed ==
    /\ Len(results.seg_offsets_) = filledLen
    /\ Len(results.distances_) = filledLen

\* C14: FillPrimaryKeys and FillTargetEntry fail when seg_offsets_ and
\* distances_ differ in length; right after a successful FillPrimaryKeys
\* primary_keys_, distances_ and seg_offsets_ have the same length, and they
\* keep it through every later Search, FillPrimaryKeys and FillTargetEntry
\* call on the result.
C14_LengthInvariant ==
    /\ (/\ last.op \in {"FillPrimaryKeys", "FillTargetEntry"}
        /\ Len(last.before.seg_offsets_) # Len(last.before.distances_))
           => last.status = "AssertError"
    /\ (last.op = "FillPrimaryKeys" /\ last.status = "ok") =>
           /\ Len(results.primary_keys_) = Len(results.distances_)
           /\ Len(results.distances_) = Len(results.seg_offsets_)
    /\ (filledLen >= 0 /\ Untrimmed) =>
           /\ Len(results.primary_keys_) = Len(results.distances_)
           /\ Len(results.distances_) = Len(results.seg_offsets_)

C14_Witness ==
    /\ last.op = "FillTargetEntry" /\ last.status = "ok"
    /\ filledLen = 2 /\ Untrimmed
    /\ Len(results.primary_keys_) = 2
    /\ results.output_fields_data_ # <<>>

\* C19: whenever FillPrimaryKeys fails one of its checks (null plan, lengths
\* of seg_offsets_ and distances_ differ, primary_keys_ not empty, schema
\* without a primary-key field, primary-key field neither INT64 nor VARCHAR),
\* primary_keys_ and pk_type_ of the SearchResult are as they were before the
\* call.
C19_StateUnchangedOnError ==
    (last.op = "FillPrimaryKeys" /\ last.status # "ok") =>
        /\ results.primary_keys_ = last.before.primary_keys_
        /\ results.pk_type_ = last.before.pk_type_

----------------------------------------------------------------------------
(* Claims about what the operations write (Spec)                           *)

ReadOps == QueryOps \cup {"get_field_avg_size", "get_real_count"}

\* Thread t takes a step of the operation it is in.
Steps(t) == pc'[t] # pc[t] \/ local'[t] # local[t]

\* C15: no step of Search, Retrieve, FillPrimaryKeys, FillTargetEntry,
\* get_field_avg_size or get_real_count, in any interleaving, changes the
\* estimate table, the timestamp array or the SkipIndex; the table changes only
\* in the update step of a set_field_avg_size call, only at the entry of the
\* field it was called for, and only when that field is variable-length.
C15_ReadOnly ==
    [][/\ \A t \in Threads :
            (op[t] \in ReadOps /\ Steps(t)) =>
                /\ variable_fields_avg_size_' = variable_fields_avg_size_
                /\ timestamps' = timestamps
                /\ skipIndex_' = skipIndex_
       /\ variable_fields_avg_size_' # variable_fields_avg_size_ =>
            \E t \in Threads :
                /\ op[t] = "set_field_avg_size" /\ pc[t] = "update" /\ pc'[t] = "unlock"
                /\ local[t].field_ids[1] \in VariableFields(schema)
                /\ \A f \in UserFields \ {local[t].field_ids[1]} :
                       variable_fields_avg_size_'[f] = variable_fields_avg_size_[f]
      ]_vars

\* A set_field_avg_size call for a fixed-width field has run its update step
\* and left the table empty, while the SkipIndex was loaded and a
\* get_real_count waits for the lock.
C15_Witness ==
    /\ \E t \in Threads :
          /\ op[t] = "set_field_avg_size" /\ pc[t] = "unlock"
          /\ local[t].field_ids = <<Int8FieldID>> /\ local[t].status = "ok"
    /\ variable_fields_avg_size_ = EmptyTable
    /\ skipIndex_ # {}
    /\ \E t \in Threads : op[t] = "get_real_count" /\ pc[t] = "lock_shared"

----------------------------------------------------------------------------
(* Claims about check_metric_type (SpecMetric)                             *)

\* C16: check_metric_type fails with MetricTypeNotMatch if and only if the
\* plan's requested metric is non-empty and differs from the metric of the
\* searched field's index; with an empty requested metric it succeeds and the
\* plan's metric becomes the index's metric; when it fails the plan's metric
\* is as the caller set it.
C16_MetricCheck ==
    last.op = "check_metric_type" =>
        LET requested == last.before.metric_type_
            indexed == index_meta[last.before.field_id_]
        IN  /\ last.status = "MetricTypeNotMatch" <=>
                   (requested # NoMetric /\ requested # indexed)
            /\ last.status \in {"ok", "MetricTypeNotMatch"}
            /\ requested = NoMetric =>
                   (last.status = "ok" /\ search_info_.metric_type_ = indexed)
            /\ last.status = "MetricTypeNotMatch" => search_info_ = last.before
            /\ search_info_.field_id_ = last.before.field_id_

C16_Witness ==
    /\ last.op = "check_metric_type" /\ last.status = "ok"
    /\ last.before = [metric_type_ |-> NoMetric, field_id_ |-> Vec2FieldID]
    /\ index_meta[Vec2FieldID] = "IP" /\ index_meta[VecFieldID] = "L2"
    /\ search_info_.metric_type_ = "IP"

\* Thread t is in Retrieve between taking the lock of line 86 and releasing it.
InsideRetrieve(t) ==
    /\ op[t] = "Retrieve"
    /\ pc[t] \in {"locked", "avg_call", "avg_lock_shared", "avg_read", "unlock_shared"}

\* C18: while a Retrieve runs, from its lock of line 86 to its return, the
\* estimate table does not change: the averages its budget check sums are all
\* read from one state of the table, and no set_field_avg_size update takes
\* effect between the first and the last read or between the budget check and
\* the end of the call.
C18_ConsistentSnapshot ==
    [][\A t \in Threads :
          InsideRetrieve(t) => variable_fields_avg_size_' = variable_fields_avg_size_]_vars

\* A Retrieve has read the average of its first field and not yet its second,
\* after an earlier update, while a set_field_avg_size waits for the lock.
C18_Witness ==
    /\ \E t \in Threads :
          /\ InsideRetrieve(t) /\ pc[t] = "avg_call"
          /\ Len(local[t].field_ids) = 2 /\ local[t].i = 2
    /\ \E t \in Threads : op[t] = "set_field_avg_size" /\ pc[t] = "lock_wait"
    /\ variable_fields_avg_size_ # EmptyTable

====
